---- MODULE Spec2Model ----
(***************************************************************************)
(* Model of lib/jira.js: the JiraApi client.  Every operation first calls  *)
(* login (POST rest/auth/1/session) and, from login's callback, builds and *)
(* dispatches its own request; the request's callback classifies the       *)
(* response by status code and invokes the caller's callback.              *)
(*                                                                         *)
(* JavaScript values are records tagged by type.  A string is a sequence   *)
(* of chunks (decimal digits one per chunk, literal text as one chunk), so *)
(* that + on strings is concatenation of sequences.                        *)
(***************************************************************************)
EXTENDS Integers, Sequences, FiniteSets, TLC

\* ------------------------------------------------------------------ bounds
\* invocation slots of the client: how many operations may be in flight
MaxInv == 2
\* operations started on the client in one behaviour
MaxCalls == 2

Inv == 1..MaxInv

\* ------------------------------------------------------- JavaScript values
Undefined == [t |-> "undefined"]
Null == [t |-> "null"]
Str(chunks) == [t |-> "string", v |-> chunks]
Obj(d) == [t |-> "object", v |-> d]
Arr(elems) == [t |-> "array", v |-> elems]
Num(n) == [t |-> "number", v |-> n]
Bool(b) == [t |-> "boolean", v |-> b]

DigitChars == <<"0", "1", "2", "3", "4", "5", "6", "7", "8", "9">>

RECURSIVE Digits(_)
\* Number-to-string conversion of a non-negative integer (statusCode + '...')
Digits(n) ==
    IF n < 10 THEN <<DigitChars[n + 1]>>
    ELSE Digits(n \div 10) \o <<DigitChars[(n % 10) + 1]>>

\* number + string
NumPlus(n, text) == Str(Digits(n) \o <<text>>)

RECURSIVE join(_, _)
\* Array.prototype.join on a sequence of strings
join(arr, sep) ==
    IF Len(arr) = 0 THEN Str(<<>>)
    ELSE IF Len(arr) = 1 THEN arr[1]
    ELSE Str(arr[1].v \o <<sep>> \o join(Tail(arr), sep).v)

\* String.prototype.toLowerCase, on the letters the model uses
LowerChar(c) ==
    CASE c = "A" -> "a"
      [] c = "B" -> "b"
      [] c = "C" -> "c"
      [] c = "D" -> "d"
      [] OTHER -> c

toLowerCase(s) == Str([k \in 1..Len(s.v) |-> LowerChar(s.v[k])])

\* ------------------------------------------------------------ the transport
\* the status codes the operations test for (200, 201, 204, 400, 403, 404,
\* 500) and 401, which only login tests for
Statuses == {200, 201, 204, 400, 401, 403, 404, 500}

\* values of the set-cookie response header (node gives an array of strings)
NoHeader == [t |-> "undefined"]
SetCookies == { Arr(<<Str(<<"JSESSIONID=1">>)>>),
                Arr(<<Str(<<"JSESSIONID=2">>), Str(<<"atl.xsrf.token=3">>)>>) }

\* connection-level failure: the transport calls back with an error and no
\* response object
NoResponse == [t |-> "undefined"]

\* login tests for 401 and for 200; 403 and 500 stand for every other status
LoginStatuses == {200, 401, 403, 500}

LoginResponses ==
    [statusCode : LoginStatuses \ {200}, setCookie : {NoHeader}]
    \cup [statusCode : {200}, setCookie : SetCookies \cup {NoHeader}]
    \cup {NoResponse}

\* bodies as the request callback receives them.  A request without the json
\* flag hands the body over as text; with json: true the transport has parsed
\* it when it could.
DocA == [views |-> Arr(<< Obj([id |-> 1, name |-> Str(<<"a", "b">>)]),
                          Obj([id |-> 2, name |-> Str(<<"A", "B">>)]) >>),
         sprints |-> Arr(<< Obj([id |-> 7]), Obj([id |-> 8]) >>),
         transitions |-> Arr(<< Obj([id |-> 5]) >>),
         issuesUnresolvedCount |-> Num(3)]
DocB == [views |-> Arr(<< Obj([id |-> 3, name |-> Str(<<"c", "d">>)]) >>),
         sprints |-> Arr(<< >>),
         transitions |-> Arr(<< >>),
         issuesUnresolvedCount |-> Num(0)]
Docs == {DocA, DocB}

\* the text that is the JSON serialisation of value x
JsonText(x) == [t |-> "string", json |-> x]
EmptyText == Str(<< >>)
BadText == Str(<<"<html>">>)

\* JSON.parse: the value, or a SyntaxError
JSONparse(text) ==
    IF "json" \in DOMAIN text THEN [threw |-> FALSE, value |-> text.json]
    ELSE [threw |-> TRUE]

\* JSON.stringify
JSONstringify(x) == JsonText(x)

RawBodies == {EmptyText, BadText} \cup {JsonText(Obj(d)) : d \in Docs}
JsonBodies == {Undefined, Null, BadText} \cup {Obj(d) : d \in Docs}

\* ------------------------------------------------------------------- state
VARIABLES
    self,       \* the JiraApi object: protocol, host, port, username,
                \* password, apiVersion, cookies
    op,         \* op[i]: the operation invocation i runs (name and arguments)
    pc,         \* pc[i]: "idle", "login" (login request in flight), "request"
                \* (the operation's own request in flight), "done", "threw"
    requests,   \* requests[i]: the requests invocation i has dispatched
    loginResp,  \* loginResp[i]: the response invocation i's login received
    opResp,     \* opResp[i]: the response invocation i's own request received
    calls,      \* calls[i]: the invocations of the caller's callback
    log,        \* the login responses handled by the client, in order
    jql         \* the global variable getUsersIssues assigns (no var)

vars == <<self, op, pc, requests, loginResp, opResp, calls, log, jql>>

None == [t |-> "none"]

\* new JiraApi(protocol, host, port, username, password, apiVersion)
JiraApi(protocol, host, port, username, password, apiVersion) ==
    [protocol |-> protocol, host |-> host, port |-> port,
     username |-> username, password |-> password,
     apiVersion |-> apiVersion, cookies |-> << >>]

Init ==
    /\ self = JiraApi("https", "jira.example.com", 443, "user", "secret", "2")
    /\ op = [i \in Inv |-> None]
    /\ pc = [i \in Inv |-> "idle"]
    /\ requests = [i \in Inv |-> << >>]
    /\ loginResp = [i \in Inv |-> None]
    /\ opResp = [i \in Inv |-> None]
    /\ calls = [i \in Inv |-> << >>]
    /\ log = << >>
    /\ jql = Undefined

\* url.format({protocol, hostname, port, pathname})
Uri(this, pathname) ==
    [protocol |-> this.protocol, hostname |-> this.host, port |-> this.port,
     pathname |-> Str(pathname)]

\* ------------------------------------------------------------------- login
\* the options of login's request
loginOptions(this) ==
    [kind |-> "login",
     uri |-> Uri(this, <<"rest/auth/1/session">>),
     method |-> "POST",
     json |-> TRUE,
     body |-> [username |-> this.username, password |-> this.password]]

\* one invocation of a callback with its actual arguments
Call1(error) == [error |-> error, result |-> Undefined]
Call2(error, result) == [error |-> error, result |-> result]

\* a plausible slip: without the reset, a 200 response without a set-cookie
\* header leaves the old cookies stored
storeCookiesWithoutReset(cookies, response) ==
    IF response.setCookie # NoHeader THEN response.setCookie.v ELSE cookies

\* a plausible slip: cookies are stored only when none are stored yet
storeCookiesOnce(cookies, response) ==
    IF cookies # << >> THEN cookies
    ELSE IF response.setCookie # NoHeader THEN response.setCookie.v ELSE << >>

\* self.cookies = []; if (response.headers['set-cookie']) self.cookies = ...
storeCookies(cookies, response) ==
    IF response.setCookie # NoHeader THEN response.setCookie.v ELSE << >>

AuthenticationError ==
    Str(<<"Failed to log in to JIRA due to authentication error.">>)

\* a plausible slip: self.cookies = [] placed before the status tests
loginResetsFirst(cookies, response) ==
    IF response = NoResponse
    THEN [cookies |-> cookies, calls |-> << >>, threw |-> TRUE]
    ELSE IF response.statusCode = 401
    THEN [cookies |-> << >>, calls |-> <<Call1(AuthenticationError)>>,
          threw |-> FALSE]
    ELSE IF response.statusCode # 200
    THEN [cookies |-> << >>,
          calls |-> <<Call1(NumPlus(response.statusCode,
                                    ": Unable to connect to JIRA during login."))>>,
          threw |-> FALSE]
    ELSE [cookies |-> storeCookies(cookies, response),
          calls |-> <<Call1(Null)>>,
          threw |-> FALSE]

\* a plausible slip: the session is dropped when authentication fails
loginLogsOutOn401(cookies, response) ==
    IF response = NoResponse
    THEN [cookies |-> cookies, calls |-> << >>, threw |-> TRUE]
    ELSE IF response.statusCode = 401
    THEN [cookies |-> << >>, calls |-> <<Call1(AuthenticationError)>>,
          threw |-> FALSE]
    ELSE IF response.statusCode # 200
    THEN [cookies |-> cookies,
          calls |-> <<Call1(NumPlus(response.statusCode,
                                    ": Unable to connect to JIRA during login."))>>,
          threw |-> FALSE]
    ELSE [cookies |-> storeCookies(cookies, response),
          calls |-> <<Call1(Null)>>,
          threw |-> FALSE]

\* the callback of login's request: the cookies it leaves stored, the
\* invocations of login's callback, and whether it throws (response is
\* undefined when the connection failed, and response.statusCode throws)
login(cookies, response) ==
    IF response = NoResponse
    THEN [cookies |-> cookies, calls |-> << >>, threw |-> TRUE]
    ELSE IF response.statusCode = 401
    THEN [cookies |-> cookies, calls |-> <<Call1(AuthenticationError)>>,
          threw |-> FALSE]
    ELSE IF response.statusCode # 200
    THEN [cookies |-> cookies,
          calls |-> <<Call1(NumPlus(response.statusCode,
                                    ": Unable to connect to JIRA during login."))>>,
          threw |-> FALSE]
    ELSE [cookies |-> storeCookies(cookies, response),
          calls |-> <<Call1(Null)>>,
          threw |-> FALSE]

\* ------------------------------------------------- the operations' requests
\* a plausible slip: join() with its default separator
CookieHeaderDefaultSeparator(this) == join(this.cookies, ",")

\* headers: { Cookie: self.cookies.join(';') }
CookieHeader(this) == join(this.cookies, ";")

\* the options every operation builds in login's callback
Options(this, method, pathname, json, body) ==
    [kind |-> "op",
     uri |-> Uri(this, pathname),
     method |-> method,
     json |-> json,
     body |-> body,
     Cookie |-> CookieHeader(this)]

findIssueOptions(this, issueNumber) ==
    Options(this, "GET",
            <<"rest/api/", this.apiVersion, "/issue/">> \o issueNumber.v,
            FALSE, Undefined)

getUnresolvedIssueCountOptions(this, version) ==
    Options(this, "GET",
            <<"rest/api/", this.apiVersion, "/version/">> \o version.v
              \o <<"/unresolvedIssueCount">>,
            FALSE, Undefined)

getProjectOptions(this, project) ==
    Options(this, "GET",
            <<"rest/api/", this.apiVersion, "/project/">> \o project.v,
            FALSE, Undefined)

findRapidViewOptions(this) ==
    Options(this, "GET",
            <<"rest/greenhopper/", this.apiVersion, "/rapidviews/list">>,
            TRUE, Undefined)

getLastSprintForRapidViewOptions(this, rapidViewId) ==
    Options(this, "GET",
            <<"rest/greenhopper/", this.apiVersion, "/sprints/">> \o rapidViewId.v,
            TRUE, Undefined)

addIssueToSprintOptions(this, issueId, sprintId) ==
    Options(this, "PUT",
            <<"rest/greenhopper/", this.apiVersion, "/sprint/">> \o sprintId.v
              \o <<"/issues/add">>,
            TRUE, Obj([issueKeys |-> Arr(<<issueId>>)]))

issueLinkOptions(this, link) ==
    Options(this, "POST",
            <<"rest/api/", this.apiVersion, "/issueLink">>,
            TRUE, link)

getVersionsOptions(this, project) ==
    Options(this, "GET",
            <<"rest/api/", this.apiVersion, "/project/">> \o project.v \o <<"/versions">>,
            FALSE, Undefined)

createVersionOptions(this, version) ==
    Options(this, "POST",
            <<"rest/api/", this.apiVersion, "/version">>,
            TRUE, version)

DefaultFields ==
    Arr(<<Str(<<"summary">>), Str(<<"status">>), Str(<<"assignee">>),
          Str(<<"description">>)>>)

searchJiraOptions(this, searchString, fields) ==
    Options(this, "POST",
            <<"rest/api/", this.apiVersion, "/search">>,
            TRUE,
            Obj([jql |-> searchString, startAt |-> 0,
                 fields |-> IF fields = Null THEN DefaultFields ELSE fields]))

\* a plausible slip: the status clause is appended whatever open is
getUsersIssuesJqlAlwaysOpen(username, open) ==
    Str(<<"assignee = ">> \o username.v
        \o <<" AND status in (Open, \"In Progress\", Reopened)">>)

\* the JQL string getUsersIssues builds
getUsersIssuesJql(username, open) ==
    IF open = Bool(TRUE)
    THEN Str(<<"assignee = ">> \o username.v
             \o <<" AND status in (Open, \"In Progress\", Reopened)">>)
    ELSE Str(<<"assignee = ">> \o username.v)

addNewIssueOptions(this, issue) ==
    Options(this, "POST",
            <<"rest/api/", this.apiVersion, "/issue">>,
            TRUE, issue)

deleteIssueOptions(this, issueNum) ==
    Options(this, "DELETE",
            <<"rest/api/", this.apiVersion, "/issue/">> \o issueNum.v,
            TRUE, Undefined)

updateIssueOptions(this, issueNum, issueUpdate) ==
    Options(this, "PUT",
            <<"rest/api/", this.apiVersion, "/issue/">> \o issueNum.v,
            TRUE, issueUpdate)

listTransitionsOptions(this, issueId) ==
    Options(this, "GET",
            <<"rest/api/", this.apiVersion, "/issue/">> \o issueId.v \o <<"/transitions">>,
            TRUE, Undefined)

transitionIssueOptions(this, issueNum, issueTransition) ==
    Options(this, "POST",
            <<"rest/api/", this.apiVersion, "/issue/">> \o issueNum.v \o <<"/transitions">>,
            TRUE, issueTransition)

listProjectsOptions(this) ==
    Options(this, "GET",
            <<"rest/api/", this.apiVersion, "/project">>,
            TRUE, Undefined)

addWorklogOptions(this, issueId, worklog) ==
    Options(this, "POST",
            <<"rest/api/", this.apiVersion, "/issue/">> \o issueId.v \o <<"/worklog">>,
            TRUE, worklog)

listIssueTypesOptions(this) ==
    Options(this, "GET",
            <<"rest/api/", this.apiVersion, "/issuetype">>,
            TRUE, Undefined)

\* ---------------------------------------- the operations' response callbacks
\* Each is the callback the operation passes to request: the invocations of
\* the caller's callback it makes, in order, and whether it ends by throwing.
Return(cs) == [calls |-> cs, threw |-> FALSE]
Throws(cs) == [calls |-> cs, threw |-> TRUE]

\* x.f: a TypeError on undefined and null, undefined on a value without f
Prop(x, f) ==
    IF x.t \in {"undefined", "null"} THEN [threw |-> TRUE]
    ELSE IF x.t = "object" /\ f \in DOMAIN x.v
    THEN [threw |-> FALSE, value |-> x.v[f]]
    ELSE [threw |-> FALSE, value |-> Undefined]

\* the shape shared by the operations that test 404, then the success status
NotFoundThen(response, notFound, success, during, onSuccess) ==
    IF response = NoResponse THEN Throws(<< >>)
    ELSE IF response.statusCode = 404 THEN Return(<<Call1(Str(<<notFound>>))>>)
    ELSE IF response.statusCode # success
    THEN Return(<<Call1(NumPlus(response.statusCode, during))>>)
    ELSE onSuccess

findIssue(response) ==
    NotFoundThen(response, "Invalid issue number.", 200,
        ": Unable to connect to JIRA during findIssueStatus.",
        LET parsed == JSONparse(response.body)
        IN  IF parsed.threw THEN Throws(<< >>)
            ELSE Return(<<Call2(Null, parsed.value)>>))

getUnresolvedIssueCount(response) ==
    NotFoundThen(response, "Invalid version.", 200,
        ": Unable to connect to JIRA during findIssueStatus.",
        LET parsed == JSONparse(response.body)
        IN  IF parsed.threw THEN Throws(<< >>)
            ELSE LET count == Prop(parsed.value, "issuesUnresolvedCount")
                 IN  IF count.threw THEN Throws(<< >>)
                     ELSE Return(<<Call2(Null, count.value)>>))

getProject(response) ==
    NotFoundThen(response, "Invalid project.", 200,
        ": Unable to connect to JIRA during getProject.",
        LET parsed == JSONparse(response.body)
        IN  IF parsed.threw THEN Throws(<< >>)
            ELSE Return(<<Call2(Null, parsed.value)>>))

RECURSIVE firstMatchCaseSensitive(_, _, _)
\* a plausible slip: the names are compared as they are
firstMatchCaseSensitive(rapidViews, i, projectName) ==
    IF i > Len(rapidViews) THEN Return(<< >>)
    ELSE LET name == Prop(rapidViews[i], "name")
         IN  IF name.threw \/ name.value.t # "string" THEN Throws(<< >>)
             ELSE IF name.value = projectName
             THEN Return(<<Call2(Null, rapidViews[i])>>)
             ELSE firstMatchCaseSensitive(rapidViews, i + 1, projectName)

RECURSIVE firstMatch(_, _, _)
\* the for loop of findRapidView from index i: the first view whose name
\* equals projectName ignoring case is handed to the callback
firstMatch(rapidViews, i, projectName) ==
    IF i > Len(rapidViews) THEN Return(<< >>)
    ELSE LET name == Prop(rapidViews[i], "name")
         IN  IF name.threw \/ name.value.t # "string" THEN Throws(<< >>)
             ELSE IF toLowerCase(name.value) = toLowerCase(projectName)
             THEN Return(<<Call2(Null, rapidViews[i])>>)
             ELSE firstMatch(rapidViews, i + 1, projectName)

findRapidView(projectName, response) ==
    NotFoundThen(response, "Invalid URL", 200,
        ": Unable to connect to JIRA during rapidView search.",
        IF response.body # Null
        THEN LET views == Prop(response.body, "views")
             IN  IF views.threw \/ views.value.t # "array" THEN Throws(<< >>)
                 ELSE firstMatch(views.value.v, 1, projectName)
        ELSE Return(<< >>))

\* Array.prototype.pop: the last element, undefined on an empty array
pop(arr) == IF Len(arr) = 0 THEN Undefined ELSE arr[Len(arr)]

getLastSprintForRapidView(response) ==
    NotFoundThen(response, "Invalid URL", 200,
        ": Unable to connect to JIRA during sprints search.",
        IF response.body # Null
        THEN LET sprints == Prop(response.body, "sprints")
             IN  IF sprints.threw \/ sprints.value.t # "array" THEN Throws(<< >>)
                 ELSE Return(<<Call2(Null, pop(sprints.value.v))>>)
        ELSE Return(<< >>))

addIssueToSprint(response) ==
    NotFoundThen(response, "Invalid URL", 204,
        ": Unable to connect to JIRA to add to sprint.",
        Return(<< >>))

\* a plausible slip: the success path ends without a call, as in
\* addIssueToSprint
issueLinkWithoutCallback(response) ==
    NotFoundThen(response, "Invalid project.", 200,
        ": Unable to connect to JIRA during issueLink.",
        Return(<< >>))

issueLink(response) ==
    NotFoundThen(response, "Invalid project.", 200,
        ": Unable to connect to JIRA during issueLink.",
        Return(<<Call1(Null)>>))

getVersions(response) ==
    NotFoundThen(response, "Invalid project.", 200,
        ": Unable to connect to JIRA during getVersions.",
        LET parsed == JSONparse(response.body)
        IN  IF parsed.threw THEN Throws(<< >>)
            ELSE Return(<<Call2(Null, parsed.value)>>))

createVersion(response) ==
    IF response = NoResponse THEN Throws(<< >>)
    ELSE IF response.statusCode = 404
    THEN Return(<<Call1(Str(<<"Version does not exist or the currently authenticated user does not have permission to view it">>))>>)
    ELSE IF response.statusCode = 403
    THEN Return(<<Call1(Str(<<"The currently authenticated user does not have permission to edit the version">>))>>)
    ELSE IF response.statusCode # 201
    THEN Return(<<Call1(NumPlus(response.statusCode,
                                ": Unable to connect to JIRA during createVersion."))>>)
    ELSE Return(<<Call2(Null, response.body)>>)

searchJira(response) ==
    IF response = NoResponse THEN Throws(<< >>)
    ELSE IF response.statusCode = 400
    THEN Return(<<Call1(Str(<<"Problem with the JQL query">>))>>)
    ELSE IF response.statusCode # 200
    THEN Return(<<Call1(NumPlus(response.statusCode,
                                ": Unable to connect to JIRA during search."))>>)
    ELSE Return(<<Call2(Null, response.body)>>)

\* a plausible slip: the error body is passed in both positions
addNewIssuePassesBodyTwice(response) ==
    IF response = NoResponse THEN Throws(<< >>)
    ELSE IF response.statusCode = 400
    THEN Return(<<Call2(response.body, response.body)>>)
    ELSE IF response.statusCode # 200 /\ response.statusCode # 201
    THEN Return(<<Call1(NumPlus(response.statusCode,
                                ": Unable to connect to JIRA during search."))>>)
    ELSE Return(<<Call2(Null, response.body)>>)

addNewIssue(response) ==
    IF response = NoResponse THEN Throws(<< >>)
    ELSE IF response.statusCode = 400
    THEN Return(<<Call1(response.body)>>)
    ELSE IF response.statusCode # 200 /\ response.statusCode # 201
    THEN Return(<<Call1(NumPlus(response.statusCode,
                                ": Unable to connect to JIRA during search."))>>)
    ELSE Return(<<Call2(Null, response.body)>>)

\* the shape shared by deleteIssue, updateIssue and transitionIssue
SuccessOrError(response, success, text) ==
    IF response = NoResponse THEN Throws(<< >>)
    ELSE IF response.statusCode = success
    THEN Return(<<Call2(Null, Str(<<"Success">>))>>)
    ELSE Return(<<Call1(NumPlus(response.statusCode, text))>>)

\* a plausible slip: the success status copied from updateIssue
deleteIssueExpects200(response) ==
    SuccessOrError(response, 200, ": Error while deleting")

deleteIssue(response) == SuccessOrError(response, 204, ": Error while deleting")

updateIssue(response) == SuccessOrError(response, 200, ": Error while updating")

listTransitions(response) ==
    IF response = NoResponse THEN Throws(<< >>)
    ELSE IF response.statusCode = 200
    THEN LET transitions == Prop(response.body, "transitions")
         IN  IF transitions.threw THEN Throws(<< >>)
             ELSE Return(<<Call2(Null, transitions.value)>>)
    ELSE (IF response.statusCode = 404
          THEN Return(<<Call1(Str(<<"Issue not found">>)),
                        Call1(NumPlus(response.statusCode, ": Error while updating"))>>)
          ELSE Return(<<Call1(NumPlus(response.statusCode, ": Error while updating"))>>))

transitionIssue(response) == SuccessOrError(response, 204, ": Error while updating")

listProjects(response) ==
    IF response = NoResponse THEN Throws(<< >>)
    ELSE IF response.statusCode = 200
    THEN Return(<<Call2(Null, response.body)>>)
    ELSE (IF response.statusCode = 500
          THEN Return(<<Call1(NumPlus(response.statusCode, ": Error while retrieving list.")),
                        Call1(NumPlus(response.statusCode, ": Error while updating"))>>)
          ELSE Return(<<Call1(NumPlus(response.statusCode, ": Error while updating"))>>))

addWorklog(response) ==
    IF response = NoResponse THEN Throws(<< >>)
    ELSE IF response.statusCode = 201
    THEN Return(<<Call2(Null, Str(<<"Success">>))>>)
    ELSE IF response.statusCode = 400
    THEN Return(<<Call1([t |-> "string",
                         v |-> <<"Invalid Fields: ">>,
                         rest |-> JSONstringify(response.body)])>>)
    ELSE IF response.statusCode = 403
    THEN Return(<<Call1(Str(<<"Insufficient Permissions">>))>>)
    ELSE Return(<<Call1(NumPlus(response.statusCode, ": Error while updating"))>>)

listIssueTypes(response) ==
    IF response = NoResponse THEN Throws(<< >>)
    ELSE IF response.statusCode = 200
    THEN Return(<<Call2(Null, response.body)>>)
    ELSE Return(<<Call1(NumPlus(response.statusCode,
                                ": Error while retreiving issue types"))>>)

\* ------------------------------------------------------------ the caller
Key == Str(<<"JRA-1">>)
Payload == Obj([summary |-> Str(<<"text">>)])

\* the invocations the caller makes: operation name and actual arguments
Invocations ==
    {[name |-> n, args |-> << >>] :
        n \in {"login", "listProjects", "listIssueTypes"}}
    \cup {[name |-> n, args |-> <<Key>>] :
        n \in {"findIssue", "getUnresolvedIssueCount", "getProject",
               "getLastSprintForRapidView", "getVersions", "deleteIssue",
               "listTransitions"}}
    \cup {[name |-> n, args |-> <<Payload>>] :
        n \in {"issueLink", "createVersion", "addNewIssue"}}
    \cup {[name |-> n, args |-> <<Key, Payload>>] :
        n \in {"updateIssue", "transitionIssue", "addWorklog"}}
    \cup {[name |-> "addIssueToSprint", args |-> <<Key, Str(<<"7">>)>>]}
    \cup {[name |-> "findRapidView", args |-> <<Str(nm)>>] :
        nm \in {<<"A", "b">>, <<"x", "y">>}}
    \cup {[name |-> "searchJira", args |-> <<Str(<<"project = JRA">>), Null>>]}
    \cup {[name |-> "getUsersIssues", args |-> <<Str(<<u>>), Bool(b)>>] :
        u \in {"bob", "eve"}, b \in BOOLEAN}

\* the request an operation builds in the callback it passes to login.
\* getUsersIssues has called searchJira(jql, null, callback) at once, so
\* searchJira's parameter searchString holds the string it built.
OptionsOf(this, o) ==
    LET a == o.args IN
    CASE o.name = "findIssue" -> findIssueOptions(this, a[1])
      [] o.name = "getUnresolvedIssueCount" -> getUnresolvedIssueCountOptions(this, a[1])
      [] o.name = "getProject" -> getProjectOptions(this, a[1])
      [] o.name = "findRapidView" -> findRapidViewOptions(this)
      [] o.name = "getLastSprintForRapidView" -> getLastSprintForRapidViewOptions(this, a[1])
      [] o.name = "addIssueToSprint" -> addIssueToSprintOptions(this, a[1], a[2])
      [] o.name = "issueLink" -> issueLinkOptions(this, a[1])
      [] o.name = "getVersions" -> getVersionsOptions(this, a[1])
      [] o.name = "createVersion" -> createVersionOptions(this, a[1])
      [] o.name = "searchJira" -> searchJiraOptions(this, a[1], a[2])
      [] o.name = "getUsersIssues" ->
            searchJiraOptions(this, getUsersIssuesJql(a[1], a[2]), Null)
      [] o.name = "addNewIssue" -> addNewIssueOptions(this, a[1])
      [] o.name = "deleteIssue" -> deleteIssueOptions(this, a[1])
      [] o.name = "updateIssue" -> updateIssueOptions(this, a[1], a[2])
      [] o.name = "listTransitions" -> listTransitionsOptions(this, a[1])
      [] o.name = "transitionIssue" -> transitionIssueOptions(this, a[1], a[2])
      [] o.name = "listProjects" -> listProjectsOptions(this)
      [] o.name = "addWorklog" -> addWorklogOptions(this, a[1], a[2])
      [] o.name = "listIssueTypes" -> listIssueTypesOptions(this)

\* the callback an operation passes to request, applied to a response
Respond(o, response) ==
    CASE o.name = "findIssue" -> findIssue(response)
      [] o.name = "getUnresolvedIssueCount" -> getUnresolvedIssueCount(response)
      [] o.name = "getProject" -> getProject(response)
      [] o.name = "findRapidView" -> findRapidView(o.args[1], response)
      [] o.name = "getLastSprintForRapidView" -> getLastSprintForRapidView(response)
      [] o.name = "addIssueToSprint" -> addIssueToSprint(response)
      [] o.name = "issueLink" -> issueLink(response)
      [] o.name = "getVersions" -> getVersions(response)
      [] o.name = "createVersion" -> createVersion(response)
      [] o.name \in {"searchJira", "getUsersIssues"} -> searchJira(response)
      [] o.name = "addNewIssue" -> addNewIssue(response)
      [] o.name = "deleteIssue" -> deleteIssue(response)
      [] o.name = "updateIssue" -> updateIssue(response)
      [] o.name = "listTransitions" -> listTransitions(response)
      [] o.name = "transitionIssue" -> transitionIssue(response)
      [] o.name = "listProjects" -> listProjects(response)
      [] o.name = "addWorklog" -> addWorklog(response)
      [] o.name = "listIssueTypes" -> listIssueTypes(response)

\* what the transport can hand to the callback of a request
Responses(bodies) == [statusCode : Statuses, body : bodies] \cup {NoResponse}

\* with json: true the transport parses the body, without it the body is text
OpResponses(options) ==
    IF options.json THEN Responses(JsonBodies) ELSE Responses(RawBodies)

AllOpResponses == Responses(JsonBodies \cup RawBodies)

\* ----------------------------------------------------------------- actions
InFlight == {i \in Inv : pc[i] \in {"login", "request"}}
Started == Len(log) + Cardinality({i \in Inv : pc[i] = "login"})

\* a plausible slip: getUsersIssues logs in itself and then delegates to
\* searchJira, which logs in again
InvokeLoginTwice(i, o) ==
    /\ pc[i] \notin {"login", "request"}
    /\ \A j \in Inv : j < i => pc[j] \in {"login", "request"}
    /\ Started < MaxCalls
    /\ op' = [op EXCEPT ![i] = o]
    /\ pc' = [pc EXCEPT ![i] = "login"]
    /\ requests' = [requests EXCEPT
                      ![i] = IF o.name = "getUsersIssues"
                             THEN <<loginOptions(self), loginOptions(self)>>
                             ELSE <<loginOptions(self)>>]
    /\ loginResp' = [loginResp EXCEPT ![i] = None]
    /\ opResp' = [opResp EXCEPT ![i] = None]
    /\ calls' = [calls EXCEPT ![i] = << >>]
    /\ jql' = IF o.name = "getUsersIssues"
              THEN getUsersIssuesJql(o.args[1], o.args[2]) ELSE jql
    /\ UNCHANGED <<self, log>>

\* The caller invokes operation o: the operation calls this.login, which
\* dispatches the session request.  getUsersIssues first assigns the global
\* jql and delegates to searchJira.
Invoke(i, o) ==
    /\ pc[i] \notin {"login", "request"}
    /\ \A j \in Inv : j < i => pc[j] \in {"login", "request"}
    /\ Started < MaxCalls
    /\ op' = [op EXCEPT ![i] = o]
    /\ pc' = [pc EXCEPT ![i] = "login"]
    /\ requests' = [requests EXCEPT ![i] = <<loginOptions(self)>>]
    /\ loginResp' = [loginResp EXCEPT ![i] = None]
    /\ opResp' = [opResp EXCEPT ![i] = None]
    /\ calls' = [calls EXCEPT ![i] = << >>]
    /\ jql' = IF o.name = "getUsersIssues"
              THEN getUsersIssuesJql(o.args[1], o.args[2]) ELSE jql
    /\ UNCHANGED <<self, log>>

\* a plausible slip: the credentials are dropped once a session exists
assignCookiesForgetsPassword(this, cookies) ==
    IF cookies # << >>
    THEN [this EXCEPT !.cookies = cookies, !.password = ""]
    ELSE [this EXCEPT !.cookies = cookies]

\* self.cookies = ...: the only assignment to a field of the client
assignCookies(this, cookies) == [this EXCEPT !.cookies = cookies]

\* a plausible slip: the options are built before the cookies of this login
\* are stored
LoginResponseBuildsOptionsFirst(i, r) ==
    /\ pc[i] = "login"
    /\ LET out == login(self.cookies, r)
           this == assignCookies(self, out.cookies)
       IN  /\ self' = this
           /\ log' = Append(log, r)
           /\ loginResp' = [loginResp EXCEPT ![i] = r]
           /\ IF out.threw
              THEN /\ pc' = [pc EXCEPT ![i] = "threw"]
                   /\ UNCHANGED <<requests, calls>>
              ELSE IF op[i].name = "login"
              THEN /\ pc' = [pc EXCEPT ![i] = "done"]
                   /\ calls' = [calls EXCEPT ![i] = out.calls]
                   /\ UNCHANGED requests
              ELSE /\ pc' = [pc EXCEPT ![i] = "request"]
                   /\ requests' = [requests EXCEPT
                                     ![i] = Append(@, OptionsOf(self, op[i]))]
                   /\ UNCHANGED calls
    /\ UNCHANGED <<op, opResp, jql>>

\* The transport delivers response r to the callback of login's request.
\* login's own callback is the caller's for a direct login.  For every other
\* operation it is function() {...}, which takes no argument: whatever login
\* reported, it builds the options from self.cookies and dispatches.
LoginResponse(i, r) ==
    /\ pc[i] = "login"
    /\ LET out == login(self.cookies, r)
           this == assignCookies(self, out.cookies)
       IN  /\ self' = this
           /\ log' = Append(log, r)
           /\ loginResp' = [loginResp EXCEPT ![i] = r]
           /\ IF out.threw
              THEN /\ pc' = [pc EXCEPT ![i] = "threw"]
                   /\ UNCHANGED <<requests, calls>>
              ELSE IF op[i].name = "login"
              THEN /\ pc' = [pc EXCEPT ![i] = "done"]
                   /\ calls' = [calls EXCEPT ![i] = out.calls]
                   /\ UNCHANGED requests
              ELSE /\ pc' = [pc EXCEPT ![i] = "request"]
                   /\ requests' = [requests EXCEPT
                                     ![i] = Append(@, OptionsOf(this, op[i]))]
                   /\ UNCHANGED calls
    /\ UNCHANGED <<op, opResp, jql>>

\* The transport delivers response r to the callback of the operation's own
\* request.
OpResponse(i, r) ==
    /\ pc[i] = "request"
    /\ r \in OpResponses(requests[i][Len(requests[i])])
    /\ LET out == Respond(op[i], r)
       IN  /\ calls' = [calls EXCEPT ![i] = out.calls]
           /\ pc' = [pc EXCEPT ![i] = IF out.threw THEN "threw" ELSE "done"]
    /\ opResp' = [opResp EXCEPT ![i] = r]
    /\ UNCHANGED <<self, op, requests, loginResp, log, jql>>

\* a caller that starts an operation only when none is in flight
InvokeAlone(i, o) == InFlight = {} /\ Invoke(i, o)

Next ==
    \E i \in Inv :
        \/ \E o \in Invocations : InvokeAlone(i, o)
        \/ \E r \in LoginResponses : LoginResponse(i, r)
        \/ \E r \in AllOpResponses : OpResponse(i, r)

Spec == Init /\ [][Next]_vars

\* a caller that starts operations while others are in flight
ConcurrentInvocations ==
    {o \in Invocations : o.name \in {"login", "deleteIssue", "listProjects"}}

ConcurrentOpResponses ==
    {NoResponse} \cup [statusCode : {200, 204, 500}, body : {Undefined}]

NextConc ==
    \E i \in Inv :
        \/ \E o \in ConcurrentInvocations : Invoke(i, o)
        \/ \E r \in LoginResponses : LoginResponse(i, r)
        \/ \E r \in ConcurrentOpResponses : OpResponse(i, r)

SpecConc == Init /\ [][NextConc]_vars

\* ================================================================== claims
Last(s) == s[Len(s)]

\* r is a response with status 200 / a response with another status
Is200(r) == r # None /\ r # NoResponse /\ r.statusCode = 200
IsFailure(r) == r # None /\ r # NoResponse /\ r.statusCode # 200

\* the set-cookie value of a 200 response as a sequence of cookies
SetCookieOf(r) == IF r.setCookie = NoHeader THEN << >> ELSE r.setCookie.v

LoginRequestsOf(i) == {k \in 1..Len(requests[i]) : requests[i][k].kind = "login"}
OwnRequestsOf(i) == {k \in 1..Len(requests[i]) : requests[i][k].kind = "op"}

\* the decimal digits of the status codes, written out
DecimalOf(status) ==
    CASE status = 200 -> <<"2", "0", "0">>
      [] status = 201 -> <<"2", "0", "1">>
      [] status = 204 -> <<"2", "0", "4">>
      [] status = 400 -> <<"4", "0", "0">>
      [] status = 401 -> <<"4", "0", "1">>
      [] status = 403 -> <<"4", "0", "3">>
      [] status = 404 -> <<"4", "0", "4">>
      [] status = 500 -> <<"5", "0", "0">>

\* C1: one invocation of an operation invokes the caller's callback at most
\* once, whatever the status codes of the login response and of its own
\* response.
C1_CallbackAtMostOnce ==
    \A i \in Inv : Len(calls[i]) <= 1

\* C2: once the login response and the operation's own response have both
\* been delivered, the caller's callback has been invoked at least once.
C2_CallbackInvoked ==
    \A i \in Inv :
        (/\ loginResp[i] \notin {None, NoResponse}
         /\ opResp[i] \notin {None, NoResponse})
        => Len(calls[i]) >= 1

\* C3: when the login response has a status other than 200, the operation's
\* own request is never dispatched and the caller's callback receives the
\* error login reported.
C3_FailedLoginShortCircuits ==
    \A i \in Inv :
        (op[i] # None /\ op[i].name # "login" /\ IsFailure(loginResp[i]))
        => /\ OwnRequestsOf(i) = {}
           /\ calls[i] = login(<< >>, loginResp[i]).calls

\* C4: an operation invoked on its own whose login response is 200 with
\* set-cookie sequence C sends its request with a Cookie header made of the
\* elements of C in order, separated by ';'.
C4_CookieHeaderIsJoinedSetCookie ==
    \A i \in Inv :
        (/\ Is200(loginResp[i])
         /\ loginResp[i].setCookie # NoHeader
         /\ OwnRequestsOf(i) # {})
        => LET C == loginResp[i].setCookie.v
               header == requests[i][2].Cookie
           IN  /\ header.t = "string"
               /\ Len(header.v) = 2 * Len(C) - 1
               /\ \A k \in 1..Len(header.v) :
                     header.v[k] = IF k % 2 = 1 THEN C[(k + 1) \div 2].v[1]
                                   ELSE ";"

C4_Witness ==
    \E i \in Inv :
        /\ Is200(loginResp[i])
        /\ loginResp[i].setCookie # NoHeader
        /\ Len(loginResp[i].setCookie.v) = 2
        /\ OwnRequestsOf(i) # {}
        /\ Len(log) = 2

\* C5: login classifies a response that is not 200: status 401 yields the
\* authentication error, any other status an error carrying that status code,
\* and in both cases the stored cookies are what they were before.
C5_LoginFailureClassified ==
    [][\A i \in Inv :
         (pc[i] = "login" /\ pc'[i] # "login" /\ IsFailure(loginResp'[i]))
         => /\ self'.cookies = self.cookies
            /\ op[i].name = "login" =>
                 /\ Len(calls'[i]) = 1
                 /\ calls'[i][1].result = Undefined
                 /\ LET error == calls'[i][1].error
                        status == loginResp'[i].statusCode
                    IN  IF status = 401
                        THEN error = Str(<<"Failed to log in to JIRA due to authentication error.">>)
                        ELSE /\ error.t = "string"
                             /\ SubSeq(error.v, 1, 3) = DecimalOf(status)]_vars

C5_Witness ==
    \E i \in Inv :
        /\ op[i] # None /\ op[i].name = "login" /\ pc[i] = "done"
        /\ IsFailure(loginResp[i]) /\ loginResp[i].statusCode = 500
        /\ self.cookies # << >>

\* C6: after a login whose response is 200 the stored cookies are exactly the
\* set-cookie value of that response, or empty when it has no set-cookie
\* header, whatever was stored before, and login reports success.
C6_SuccessfulLoginReplacesCookies ==
    /\ (log # << >> /\ Is200(Last(log))) => self.cookies = SetCookieOf(Last(log))
    /\ \A i \in Inv :
          (op[i] # None /\ op[i].name = "login" /\ Is200(loginResp[i]))
          => /\ Len(calls[i]) = 1
             /\ calls[i][1].error = Null

C6_Witness ==
    /\ Len(log) = 2
    /\ Is200(log[1]) /\ log[1].setCookie # NoHeader
    /\ Is200(log[2]) /\ log[2].setCookie = NoHeader
    /\ \E i \in Inv : op[i].name = "login" /\ pc[i] = "done"

\* C7 as stated: the stored cookies are empty before the first login and
\* empty after any failed login, also one that follows a successful login.
C7_EmptyAfterFailedLogin ==
    /\ log = << >> => self.cookies = << >>
    /\ (log # << >> /\ IsFailure(Last(log))) => self.cookies = << >>

\* C7 as amended: the stored cookies are empty while no login has got a 200
\* response, and after a failed login that directly follows a successful one
\* they are still the cookies that successful login stored.
C7_FailedLoginKeepsCookies ==
    /\ (\A k \in 1..Len(log) : ~Is200(log[k])) => self.cookies = << >>
    /\ (Len(log) >= 2 /\ IsFailure(Last(log)) /\ Is200(log[Len(log) - 1]))
       => self.cookies = SetCookieOf(log[Len(log) - 1])

C7_Witness ==
    /\ Len(log) = 2
    /\ Is200(log[1]) /\ log[1].setCookie # NoHeader
    /\ IsFailure(log[2])
    /\ self.cookies # << >>

\* the index in the log of the last login that got a 200 response (0: none)
LastSuccess == 
    LET ok == {k \in 1..Len(log) : Is200(log[k])}
    IN  IF ok = {} THEN 0 ELSE CHOOSE k \in ok : \A m \in ok : m <= k

\* C8: with several operations in flight, once every login response has been
\* handled the stored cookies are those of the 200 login response handled
\* last, in every order of delivery.
C8_LastSuccessfulLoginWins ==
    ({i \in Inv : pc[i] = "login"} = {} /\ LastSuccess # 0)
    => self.cookies = SetCookieOf(log[LastSuccess])

\* two operations were in flight together, the second one's login was
\* answered first with 200, the first one's login later with a failure
C8_Witness ==
    /\ Len(log) = 2
    /\ loginResp[2] = log[1] /\ loginResp[1] = log[2]
    /\ Is200(log[1]) /\ log[1].setCookie # NoHeader
    /\ IsFailure(log[2])
    /\ self.cookies = SetCookieOf(log[1])

\* C9: every invocation issues exactly one login request, first; it issues
\* its own request only after its login response has been handled, and at
\* most once: at most two requests, none repeated.
C9_OneLoginThenAtMostOneRequest ==
    \A i \in Inv :
        op[i] # None
        => /\ LoginRequestsOf(i) = {1}
           /\ Cardinality(OwnRequestsOf(i)) <= 1
           /\ Len(requests[i]) <= 2
           /\ OwnRequestsOf(i) # {} => loginResp[i] # None
           /\ loginResp[i] = None => pc[i] = "login"

C9_Witness ==
    \E i \in Inv :
        /\ Len(log) = 2 /\ Is200(log[1]) /\ log[1].setCookie # NoHeader
        /\ pc[i] = "done"
        /\ Len(requests[i]) = 2

\* C10: when the transport reports a connection failure with no response
\* object, on the login request or on the operation's own request, the
\* caller's callback receives an error and nothing is thrown.
C10_ConnectionFailureReported ==
    \A i \in Inv :
        /\ pc[i] # "threw"
        /\ (loginResp[i] = NoResponse \/ opResp[i] = NoResponse)
           => /\ Len(calls[i]) >= 1
              /\ calls[i][1].error # Null

\* a callback argument that carries nothing: null or undefined
Absent(x) == x \in {Null, Undefined}

\* invocation i has received response status s on its own request
Answered(i, name, s) ==
    /\ op[i] # None /\ op[i].name = name
    /\ opResp[i] \notin {None, NoResponse}
    /\ opResp[i].statusCode = s

\* C11 as stated: every callback invocation made by an operation carries
\* exactly one of an error and a result: never both, never neither.
C11_ExactlyOneOfErrorAndResult ==
    \A i \in Inv :
        (op[i] # None /\ op[i].name # "login")
        => \A k \in 1..Len(calls[i]) :
              Absent(calls[i][k].error) # Absent(calls[i][k].result)

\* C11 as amended: no callback invocation carries both an error and a
\* result; issueLink reports success with a null error and no result.
C11_NeverErrorAndResult ==
    /\ \A i \in Inv : \A k \in 1..Len(calls[i]) :
          ~Absent(calls[i][k].error) => calls[i][k].result = Undefined
    /\ \A i \in Inv :
          (Answered(i, "issueLink", 200) /\ pc[i] = "done")
          => calls[i] = <<[error |-> Null, result |-> Undefined]>>

C11_Witness ==
    \E i \in Inv :
        /\ Answered(i, "addNewIssue", 400)
        /\ Len(calls[i]) = 1
        /\ calls[i][1].error.t = "object"
        /\ calls[i][1].result = Undefined

\* C12 as stated: neither addIssueToSprint (on 204) nor issueLink (on 200)
\* invokes the caller's callback on its success path.
C12_NoCallbackOnSuccess ==
    \A i \in Inv :
        (Answered(i, "addIssueToSprint", 204) \/ Answered(i, "issueLink", 200))
        => calls[i] = << >>

\* C12 as amended: addIssueToSprint never invokes the callback on status 204;
\* issueLink invokes it exactly once on status 200, with a null error.
C12_OnlyAddIssueToSprintIsSilent ==
    \A i \in Inv :
        /\ Answered(i, "addIssueToSprint", 204) => calls[i] = << >>
        /\ Answered(i, "issueLink", 200)
           => (Len(calls[i]) = 1 /\ calls[i][1].error = Null)

C12_Witness ==
    \E i \in Inv : Answered(i, "issueLink", 200) /\ pc[i] = "done"

\* C13: getUsersIssues(u, true) passes searchJira the string 'assignee = ' + u
\* + ' AND status in (Open, "In Progress", Reopened)', getUsersIssues(u,
\* false) exactly 'assignee = ' + u; the search runs with the default fields
\* and the caller's callback, and its outcome is that of searchJira.
C13_GetUsersIssuesJql ==
    \A i \in Inv :
        (op[i] # None /\ op[i].name = "getUsersIssues")
        => LET u == op[i].args[1].v[1]
               open == op[i].args[2].v
               asked == [name |-> "searchJira",
                         args |-> <<IF open
                                    THEN Str(<<"assignee = ", u,
                                               " AND status in (Open, \"In Progress\", Reopened)">>)
                                    ELSE Str(<<"assignee = ", u>>),
                                    Null>>]
           IN  /\ OwnRequestsOf(i) # {} =>
                     /\ requests[i][2].body.v.jql = asked.args[1]
                     /\ requests[i][2].body.v.fields =
                            Arr(<<Str(<<"summary">>), Str(<<"status">>),
                                  Str(<<"assignee">>), Str(<<"description">>)>>)
                     /\ requests[i][2].method = "POST"
                     /\ requests[i][2].uri.pathname =
                            Str(<<"rest/api/", "2", "/search">>)
               /\ opResp[i] # None => 
                     /\ calls[i] = Respond(asked, opResp[i]).calls
                     /\ (pc[i] = "threw") = Respond(asked, opResp[i]).threw

C13_Witness ==
    \E i \in Inv :
        /\ op[i] # None /\ op[i].name = "getUsersIssues"
        /\ op[i].args = <<Str(<<"eve">>), Bool(TRUE)>>
        /\ Answered(i, "getUsersIssues", 200)
        /\ Len(calls[i]) = 1

\* two characters equal up to letter case
SameLetter(c, d) ==
    \/ c = d
    \/ {c, d} \in {{"A", "a"}, {"B", "b"}, {"C", "c"}, {"D", "d"}}

\* two strings equal ignoring letter case
SameIgnoringCase(s, t) ==
    /\ Len(s.v) = Len(t.v)
    /\ \A k \in 1..Len(s.v) : SameLetter(s.v[k], t.v[k])

\* C14: findRapidView(name), on a 200 response with a views list, calls back
\* with (null, v) for the first view v in list order whose name equals name
\* ignoring case, and makes no call when no view matches.
C14_FirstViewIgnoringCase ==
    \A i \in Inv :
        (Answered(i, "findRapidView", 200) /\ opResp[i].body.t = "object")
        => LET views == opResp[i].body.v.views.v
               matches == {k \in 1..Len(views) :
                             SameIgnoringCase(views[k].v.name, op[i].args[1])}
           IN  /\ pc[i] = "done"
               /\ IF matches = {} THEN calls[i] = << >>
                  ELSE \E k \in matches :
                          /\ \A m \in matches : k <= m
                          /\ calls[i] = <<[error |-> Null, result |-> views[k]]>>

C14_Witness ==
    \E i \in Inv :
        /\ Answered(i, "findRapidView", 200)
        /\ opResp[i].body = Obj(DocA)
        /\ op[i].args[1] = Str(<<"A", "b">>)
        /\ Len(calls[i]) = 1
        /\ calls[i][1].result.v.id = 1

\* the string s contains the chunks part, in order and adjacent
Contains(s, part) ==
    \E k \in 1..(Len(s) - Len(part) + 1) :
        SubSeq(s, k, k + Len(part) - 1) = part

\* the success status of deleteIssue, updateIssue and transitionIssue
SuccessStatus(name) ==
    CASE name = "deleteIssue" -> 204
      [] name = "updateIssue" -> 200
      [] name = "transitionIssue" -> 204

\* C15: deleteIssue (204), updateIssue (200) and transitionIssue (204) yield
\* (null, "Success") on their success status, and on every other status s an
\* error string that contains s, with no result.
C15_SuccessOrErrorWithStatus ==
    \A i \in Inv :
        (/\ op[i] # None
         /\ op[i].name \in {"deleteIssue", "updateIssue", "transitionIssue"}
         /\ opResp[i] \notin {None, NoResponse})
        => LET s == opResp[i].statusCode
           IN  /\ Len(calls[i]) = 1
               /\ IF s = SuccessStatus(op[i].name)
                  THEN /\ calls[i][1].error = Null
                       /\ calls[i][1].result = Str(<<"Success">>)
                  ELSE /\ calls[i][1].error.t = "string"
                       /\ Contains(calls[i][1].error.v, DecimalOf(s))
                       /\ calls[i][1].result = Undefined

C15_Witness ==
    \E i \in Inv :
        /\ Answered(i, "deleteIssue", 500)
        /\ Len(calls[i]) = 1
        /\ Contains(calls[i][1].error.v, <<"5", "0", "0">>)

\* C16: no sequence of operations, login included, changes the client's
\* protocol, host, port, username, password or apiVersion; the stored
\* cookies are the only field of the client an operation writes.
C16_ConfigNeverChanges ==
    [][/\ DOMAIN self' = DOMAIN self
       /\ \A f \in DOMAIN self : f # "cookies" => self'[f] = self[f]]_vars

\* a login has stored cookies in the client, after an earlier login
C16_Witness ==
    /\ Len(log) = 2
    /\ Is200(log[2])
    /\ self.cookies # << >>
    /\ self.password = "secret"

\* C17: the stored cookies are the only mutable state shared between
\* invocations: no operation writes any other variable that another
\* invocation can read.
C17_NothingSharedButCookies ==
    [][jql' = jql]_vars

\* the Cookie header made of the cookies in C
HeaderOf(C) ==
    Str([k \in 1..(IF Len(C) = 0 THEN 0 ELSE 2 * Len(C) - 1) |->
           IF k % 2 = 1 THEN C[(k + 1) \div 2].v[1] ELSE ";"])

\* C18: with operations running concurrently on one client, an operation
\* whose own login response is 200 sends its request with exactly the
\* cookies of its own login response, in every interleaving.
C18_OwnCookiesAfterOwnLogin ==
    \A i \in Inv :
        (Is200(loginResp[i]) /\ OwnRequestsOf(i) # {})
        => requests[i][2].Cookie = HeaderOf(SetCookieOf(loginResp[i]))

\* two operations in flight together, their logins answered in the opposite
\* order with different cookies, both requests sent
C18_Witness ==
    /\ Len(log) = 2
    /\ loginResp[2] = log[1] /\ loginResp[1] = log[2]
    /\ Is200(log[1]) /\ Is200(log[2])
    /\ SetCookieOf(log[1]) # SetCookieOf(log[2])
    /\ \A i \in Inv : OwnRequestsOf(i) # {}

====
